---- MODULE Spec2Model ----
(***************************************************************************)
(* Fingerprint minutiae matcher (firebase_utils.py, app.py).               *)
(*                                                                         *)
(* Numbers are fixed-point: the integer n stands for the real n / Scale.   *)
(* Every raw cell value of the uploaded table and every stored field is a  *)
(* tagged value, because the same raw column is read as a coordinate, a    *)
(* type or an angle depending on the column arrangement:                   *)
(*   k = "num"  a finite number n / Scale                                  *)
(*   k = "nan"  the float NaN (an empty CSV cell read by pandas)           *)
(*   k = "str"  a string, s its sequence of characters                     *)
(*   k = "none" None (a null stored field)                                 *)
(*   k = "raise" is not a value: it marks that a conversion raised         *)
(* A point is a dict: a function from a set of keys to values.  The keys   *)
(* "x","y","type","angle" are the named keys, "s0".."s3" stand for the     *)
(* string keys '0'..'3' and "i0".."i3" for the integer keys 0..3.          *)
(***************************************************************************)
EXTENDS Integers, Sequences, FiniteSets, TLC

VARIABLES
    \* ---- calculate_similarity called on its own
    uploaded_minutiae,   \* argument: list of query points
    reference_minutiae,  \* argument: list of reference points
    similarity,          \* what the call returned (or that it raised)
    spc,                 \* "call" before the call, "returned" after
    \* ---- match_minutiae_with_database
    minutiae_df,         \* argument: the uploaded table, a list of rows
    store,               \* documents of the fingerprintReferences collection
    pc,                  \* position in match_minutiae_with_database
    reference_dataset,   \* list built from the fetched documents
    all_test_minutiae,   \* the table mapped under each arrangement
    ref_pos,             \* index of the reference record being processed
    arr_pos,             \* index of the arrangement being tried (0-based)
    best_match_data,     \* best match of the current record, or NoneData
    best_match_score,    \* its score
    all_matches,         \* the per-record best results
    result,              \* return value of match_minutiae_with_database
    \* ---- the Find Match handler of the page (app.py)
    firebase_initialized, \* the start-up call of initialize_firebase returned
    shown,               \* what the handler put on the page
    \* ---- initialize_firebase, get_db_and_bucket
    apps,                \* firebase_admin._apps is not empty
    db,                  \* the global db: NoHandle or a Firestore client
    bucket,              \* the global bucket: NoHandle or a storage bucket
    handles,             \* number of client and bucket objects created so far
    app_inits,           \* number of times initialize_app created the app
    init_runs,           \* number of times initialize_firebase was entered
    calls,               \* number of calls made so far
    failed_calls,        \* number of calls that raised
    last,                \* the last call: which, how it ended, what it returned
    first_pair           \* the first (db, bucket) pair a call returned

vars == << uploaded_minutiae, reference_minutiae, similarity, spc,
           minutiae_df, store, pc, reference_dataset, all_test_minutiae,
           ref_pos, arr_pos, best_match_data, best_match_score,
           all_matches, result, firebase_initialized, shown,
           apps, db, bucket, handles, app_inits, init_runs, calls,
           failed_calls, last, first_pair >>

fbVars == << apps, db, bucket, handles, app_inits, init_runs, calls,
             failed_calls, last, first_pair >>
simVars == << uploaded_minutiae, reference_minutiae, similarity, spc >>
pageVars == << firebase_initialized, shown >>
dbVars == << minutiae_df, store, pc, reference_dataset, all_test_minutiae,
             ref_pos, arr_pos, best_match_data, best_match_score,
             all_matches, result, firebase_initialized, shown >>

-----------------------------------------------------------------------------
(* Values *)

\* fixed-point resolution of the numbers: n stands for n / Scale
Scale == 100

Num(n) == [k |-> "num", n |-> n, s |-> << >>]
Str(s) == [k |-> "str", n |-> 0, s |-> s]
NoneV == [k |-> "none", n |-> 0, s |-> << >>]
NaN == [k |-> "nan", n |-> 0, s |-> << >>]
Raise == [k |-> "raise", n |-> 0, s |-> << >>]

Min(a, b) == IF a <= b THEN a ELSE b
Max(a, b) == IF a >= b THEN a ELSE b
Abs(a) == IF a < 0 THEN -a ELSE a

Digits == {"0", "1", "2", "3", "4", "5", "6", "7", "8", "9"}

DigitVal(c) ==
    CASE c = "0" -> 0 [] c = "1" -> 1 [] c = "2" -> 2 [] c = "3" -> 3
      [] c = "4" -> 4 [] c = "5" -> 5 [] c = "6" -> 6 [] c = "7" -> 7
      [] c = "8" -> 8 [] c = "9" -> 9

\* str.isdigit(): non-empty and every character a digit
IsDigit(s) == Len(s) > 0 /\ \A i \in 1..Len(s) : s[i] \in Digits

RECURSIVE DigitsValue(_)
\* the integer a string of digits denotes
DigitsValue(s) ==
    IF Len(s) = 0 THEN 0
    ELSE 10 * DigitsValue(SubSeq(s, 1, Len(s) - 1)) + DigitVal(s[Len(s)])

\* int(s) of an all-digit string, as a number
IntOfStr(s) == Num(DigitsValue(s) * Scale)

\* float(s) of a string: an optional sign followed by digits parses, anything
\* else raises ValueError
FloatOfStr(s) ==
    IF IsDigit(s) THEN Num(DigitsValue(s) * Scale)
    ELSE IF Len(s) > 1 /\ s[1] \in {"-", "+"} /\ IsDigit(Tail(s))
         THEN Num((IF s[1] = "-" THEN -1 ELSE 1) * DigitsValue(Tail(s)) * Scale)
         ELSE Raise

\* float(v): numbers pass, strings are parsed, None raises TypeError
Float(v) ==
    CASE v.k = "num" -> v
      [] v.k = "nan" -> v
      [] v.k = "str" -> FloatOfStr(v.s)
      [] OTHER -> Raise

\* point.get(key, 0)
Get(point, key) == IF key \in DOMAIN point THEN point[key] ELSE Num(0)

-----------------------------------------------------------------------------
(* calculate_similarity: normalisation of the two point lists *)

\* resolution of angle arithmetic: 2*pi is irrational, so angles (multiples
\* of 1/Scale) are compared in units of 1/AngleScale, fine enough that no
\* comparison of the model falls inside the rounding of 2*pi
AngleScale == 1000000

\* RefKeys without the integer keys: a point keyed 0..3 is read by name
RefKeysWithoutIntegers(point) ==
    IF "s0" \in DOMAIN point
    THEN [x |-> "s0", y |-> "s1", type |-> "s2", angle |-> "s3"]
    ELSE [x |-> "x", y |-> "y", type |-> "type", angle |-> "angle"]

\* the keys a reference point is read by: '0'..'3' if it has the key '0',
\* else 0..3 if it has the key 0, else the named keys
RefKeys(point) ==
    IF "s0" \in DOMAIN point
    THEN [x |-> "s0", y |-> "s1", type |-> "s2", angle |-> "s3"]
    ELSE IF "i0" \in DOMAIN point
         THEN [x |-> "i0", y |-> "i1", type |-> "i2", angle |-> "i3"]
         ELSE [x |-> "x", y |-> "y", type |-> "type", angle |-> "angle"]

NormalizeReferencePoint(point) ==
    LET key == RefKeys(point)
    IN  [x |-> Float(Get(point, key.x)),
         y |-> Float(Get(point, key.y)),
         type |-> Get(point, key.type),
         angle |-> Float(Get(point, key.angle))]

NormalizeUploadedPoint(point) ==
    [x |-> Float(Get(point, "x")),
     y |-> Float(Get(point, "y")),
     type |-> Get(point, "type"),
     angle |-> Float(Get(point, "angle"))]

\* a float() of the point raised: the exception leaves calculate_similarity
PointRaised(np) == Raise \in {np.x, np.y, np.angle}

normalized_reference(reference) ==
    [j \in 1..Len(reference) |-> NormalizeReferencePoint(reference[j])]

normalized_uploaded(uploaded) ==
    [i \in 1..Len(uploaded) |-> NormalizeUploadedPoint(uploaded[i])]

NormalizationRaised(uploaded, reference) ==
    \/ \E j \in 1..Len(reference) : PointRaised(normalized_reference(reference)[j])
    \/ \E i \in 1..Len(uploaded) : PointRaised(normalized_uploaded(uploaded)[i])

-----------------------------------------------------------------------------
(* calculate_similarity: comparison of one query point with one reference point *)

\* distance threshold, 5 units
proximity_threshold == 5 * Scale
\* angle threshold, 0.3 rad, in units of 1/AngleScale
angle_threshold == (3 * AngleScale) \div 10
\* 2 * np.pi in units of 1/AngleScale
TwoPi == 6283185

\* a type that is an all-digit string becomes the integer it denotes
NormType(t) == IF t.k = "str" /\ IsDigit(t.s) THEN IntOfStr(t.s) ELSE t

\* test_type == ref_type of Python: NaN equals nothing, a string never equals
\* a number, None equals None
type_match(test_type, ref_type) ==
    /\ NormType(test_type).k # "nan"
    /\ NormType(test_type) = NormType(ref_type)

\* (test_x - ref_x)**2 + (test_y - ref_y)**2, in units of 1/Scale^2; the code
\* takes the square root, which keeps every comparison made on it (with the
\* threshold, with another distance) when the radicands are compared instead
distance_sq(tp, rp) ==
    IF "nan" \in {tp.x.k, tp.y.k, rp.x.k, rp.y.k} THEN NaN
    ELSE Num((tp.x.n - rp.x.n) * (tp.x.n - rp.x.n)
             + (tp.y.n - rp.y.n) * (tp.y.n - rp.y.n))

\* angle_diff without the min: always the complement 2*pi - |d|
angle_diff_complement(tp, rp) ==
    IF "nan" \in {tp.angle.k, rp.angle.k} THEN NaN
    ELSE Num(TwoPi - Abs(tp.angle.n - rp.angle.n) * (AngleScale \div Scale))

\* min(abs(test_angle - ref_angle), 2*pi - abs(test_angle - ref_angle)),
\* in units of 1/AngleScale
angle_diff(tp, rp) ==
    IF "nan" \in {tp.angle.k, rp.angle.k} THEN NaN
    ELSE LET d == Abs(tp.angle.n - rp.angle.n) * (AngleScale \div Scale)
         IN  Num(Min(d, TwoPi - d))

\* a <= b on floats: false when either is NaN
LessEq(a, b) == a.k = "num" /\ b.k = "num" /\ a.n <= b.n

\* a < b on floats, b possibly float('inf')
Less(a, b) == a.k = "num" /\ (b.k = "inf" \/ (b.k = "num" /\ a.n < b.n))

Inf == [k |-> "inf", n |-> 0, s |-> << >>]

\* PointsMatch with the distance compared by < instead of <=
PointsMatchStrictDistance(tp, rp) ==
    /\ Less(distance_sq(tp, rp), Num(proximity_threshold * proximity_threshold))
    /\ LessEq(angle_diff(tp, rp), Num(angle_threshold))
    /\ type_match(tp.type, rp.type)

\* distance <= proximity_threshold and angle_diff <= angle_threshold and type_match
PointsMatch(tp, rp) ==
    /\ LessEq(distance_sq(tp, rp), Num(proximity_threshold * proximity_threshold))
    /\ LessEq(angle_diff(tp, rp), Num(angle_threshold))
    /\ type_match(tp.type, rp.type)

-----------------------------------------------------------------------------
(* calculate_similarity: the matching loops and the score *)

\* best_match_detail = None
NoneDetail == [test_idx |-> -1, ref_idx |-> -1, distance |-> NaN, angle_diff |-> NaN]

\* length of the matchDetails kept in the result: match_details[:10]
MaxMatchDetails == 10

RECURSIVE ScanReference(_, _, _, _, _, _)
\* (the try/except around one comparison is not modelled: on normalised
\* points of the values above no statement of the comparison raises)
\* the inner loop over the reference points j..len for query point i (indices
\* from 1; the details carry the 0-based indices of the code): a matching
\* reference point replaces the best one only when strictly closer
ScanReference(tp, i, nref, j, best_match_dist, best_match_detail) ==
    IF j > Len(nref) THEN best_match_detail
    ELSE LET distance == distance_sq(tp, nref[j])
             better == PointsMatch(tp, nref[j]) /\ Less(distance, best_match_dist)
         IN  ScanReference(tp, i, nref, j + 1,
                 IF better THEN distance ELSE best_match_dist,
                 IF better
                 THEN [test_idx |-> i - 1, ref_idx |-> j - 1,
                       distance |-> distance, angle_diff |-> angle_diff(tp, nref[j])]
                 ELSE best_match_detail)

\* the best reference point of query point i, or NoneDetail
BestMatchDetail(nup, nref, i) == ScanReference(nup[i], i, nref, 1, Inf, NoneDetail)

RECURSIVE MatchLoop(_, _, _, _)
\* the outer loop over the query points lo..hi: the list of the details it
\* appends, one for every query point that found a match, in the order of the
\* query points (the range is evaluated by halves, which bounds the depth of
\* the evaluation and appends in the same order)
MatchLoop(nup, nref, lo, hi) ==
    IF lo > hi THEN << >>
    ELSE IF lo = hi
         THEN LET best_match_detail == BestMatchDetail(nup, nref, lo)
              IN  IF best_match_detail # NoneDetail THEN << best_match_detail >> ELSE << >>
         ELSE MatchLoop(nup, nref, lo, (lo + hi) \div 2)
                 \o MatchLoop(nup, nref, (lo + hi) \div 2 + 1, hi)

\* a score is the exact fraction num / den (den > 0) of the float the code holds
Score(num, den) == [num |-> num, den |-> den]
ScoreGreater(a, b) == a.num * b.den > b.num * a.den
ScoreGreaterEq(a, b) == a.num * b.den >= b.num * a.den
ScoreLess(a, b) == a.num * b.den < b.num * a.den

\* total_points with min in place of max
total_points_min(nup, nref) == Min(Len(nup), Len(nref))

\* max(len(normalized_uploaded), len(normalized_reference))
total_points(nup, nref) == Max(Len(nup), Len(nref))

\* (matches / total_points) * 100 if total_points > 0 else 0
similarity_score(matches, total) ==
    IF total > 0 THEN Score(matches * 100, total) ELSE Score(0, 1)

\* EmptyResult with the length of the reference list as totalPoints
EmptyResultReferenceLength(uploaded, reference) ==
    [status |-> "ok", score |-> Score(0, 1), matchedPoints |-> 0,
     totalPoints |-> Len(reference), matchDetails |-> << >>]

\* the early return for an empty list
EmptyResult(uploaded, reference) ==
    [status |-> "ok",
     score |-> Score(0, 1),
     matchedPoints |-> 0,
     totalPoints |-> Max(Len(uploaded), Len(reference)),
     matchDetails |-> << >>]

\* an exception left calculate_similarity: there is no return value
RaisedResult ==
    [status |-> "raise", score |-> Score(0, 1), matchedPoints |-> 0,
     totalPoints |-> 0, matchDetails |-> << >>]

\* MatchedResult with mutual exclusivity: a reference point claimed by
\* several query points is counted once
MatchedResultExclusive(nup, nref) ==
    LET match_details == MatchLoop(nup, nref, 1, Len(nup))
        matches == Cardinality({match_details[n].ref_idx : n \in 1..Len(match_details)})
        total == total_points(nup, nref)
    IN  [status |-> "ok",
         score |-> similarity_score(matches, total),
         matchedPoints |-> matches,
         totalPoints |-> total,
         matchDetails |-> SubSeq(match_details, 1, Min(Len(match_details), MaxMatchDetails))]

MatchedResult(nup, nref) ==
    LET match_details == MatchLoop(nup, nref, 1, Len(nup))
        matches == Len(match_details)
        total == total_points(nup, nref)
    IN  [status |-> "ok",
         score |-> similarity_score(matches, total),
         matchedPoints |-> matches,
         totalPoints |-> total,
         matchDetails |-> SubSeq(match_details, 1, Min(Len(match_details), MaxMatchDetails))]

calculate_similarity(uploaded, reference) ==
    IF Len(uploaded) = 0 \/ Len(reference) = 0
    THEN EmptyResult(uploaded, reference)
    ELSE IF NormalizationRaised(uploaded, reference)
         THEN RaisedResult
         ELSE MatchedResult(normalized_uploaded(uploaded), normalized_reference(reference))

-----------------------------------------------------------------------------
(* match_minutiae_with_database: the column arrangements *)

\* the four arrangements, in the order they are tried: role -> column index
arrangements ==
    << [x |-> 0, y |-> 1, type |-> 2, angle |-> 3],
       [x |-> 0, y |-> 1, angle |-> 2, type |-> 3],
       [type |-> 0, x |-> 1, y |-> 2, angle |-> 3],
       [angle |-> 0, x |-> 1, y |-> 2, type |-> 3] >>

\* the roles of an arrangement whose column exists in a table of ncols columns
MappedKeys(arrange, ncols) == {key \in DOMAIN arrange : arrange[key] < ncols}

\* mapped_df.to_dict(orient='records'): one dict per row holding the mapped
\* roles; a frame no column was assigned to has no records.  The table df is
\* [columns |-> number of columns, rows |-> list of rows of that width]
test_minutiae(df, arrange) ==
    IF MappedKeys(arrange, df.columns) = {} THEN << >>
    ELSE [r \in 1..Len(df.rows) |->
            [key \in MappedKeys(arrange, df.columns) |-> df.rows[r][arrange[key] + 1]]]

AllTestMinutiae(df) == [i \in 1..Len(arrangements) |-> test_minutiae(df, arrangements[i])]

\* one entry of reference_dataset for a stored document [id, minutiae]; the
\* passthrough matchData is represented by the document it belongs to
ReferenceData(doc) ==
    [id |-> doc.id, minutiae |-> doc.minutiae, matchData |-> <<"data", doc.id>>]

ReferenceDataset(docs) == [r \in 1..Len(docs) |-> ReferenceData(docs[r])]

-----------------------------------------------------------------------------
(* match_minutiae_with_database: ranking and classification *)

\* threshold for a good match and for a perfect match
threshold == 95
perfect_threshold == 99
\* good_matches[:3] beside perfect matches, all_matches[:5]
GoodShown == 3
AllShown == 5

Prefix(s, n) == SubSeq(s, 1, Min(Len(s), n))

\* InsertDesc placing m in front of the entries of equal score: not stable
InsertDescBeforeEqual(sorted, m) ==
    LET ahead == Cardinality({n \in 1..Len(sorted) :
                    ScoreGreater(sorted[n].similarity.score, m.similarity.score)})
    IN  SubSeq(sorted, 1, ahead) \o << m >> \o SubSeq(sorted, ahead + 1, Len(sorted))

RECURSIVE InsertDesc(_, _)
\* m placed behind every entry whose score is not lower than its own
InsertDesc(sorted, m) ==
    IF sorted = << >> THEN << m >>
    ELSE IF ScoreGreaterEq(Head(sorted).similarity.score, m.similarity.score)
         THEN << Head(sorted) >> \o InsertDesc(Tail(sorted), m)
         ELSE << m >> \o sorted

RECURSIVE SortFrom(_, _)
SortFrom(s, sorted) ==
    IF s = << >> THEN sorted ELSE SortFrom(Tail(s), InsertDesc(sorted, Head(s)))

\* all_matches.sort(key=score, reverse=True): stable, descending
SortByScore(matches) == SortFrom(matches, << >>)

\* IsPerfect with > in place of >=
IsPerfectStrict(m) == ScoreGreater(m.similarity.score, Score(perfect_threshold, 1))

IsPerfect(m) == ScoreGreaterEq(m.similarity.score, Score(perfect_threshold, 1))
IsGood(m) ==
    /\ ScoreGreaterEq(m.similarity.score, Score(threshold, 1))
    /\ ScoreLess(m.similarity.score, Score(perfect_threshold, 1))

\* [match for match in all_matches if ...]
perfect_matches(sorted) == SelectSeq(sorted, IsPerfect)
good_matches(sorted) == SelectSeq(sorted, IsGood)

\* no similarity computed yet
NoSimilarity ==
    [status |-> "none", score |-> Score(0, 1), matchedPoints |-> 0,
     totalPoints |-> 0, matchDetails |-> << >>]

NoData == <<"data", "None">>

\* best_match_data = None
NoneData ==
    [id |-> "", matchData |-> NoData, similarity |-> NoSimilarity, arrangement_used |-> -1]

NoClosest == [id |-> "", matchData |-> NoData, similarity |-> NoSimilarity]

\* the return value None, and the value of result before the return
NoneResult ==
    [keys |-> {}, match |-> NoData, similarity |-> NoSimilarity, perfectMatches |-> << >>,
     goodMatches |-> << >>, closestMatch |-> NoClosest, allMatches |-> << >>]

\* the dict returned when there are perfect matches; keys are the keys it has
PerfectResult(sorted) ==
    [keys |-> {"match", "similarity", "perfectMatches", "goodMatches", "allMatches"},
     match |-> perfect_matches(sorted)[1].matchData,
     similarity |-> perfect_matches(sorted)[1].similarity,
     perfectMatches |-> perfect_matches(sorted),
     goodMatches |-> Prefix(good_matches(sorted), GoodShown),
     closestMatch |-> NoClosest,
     allMatches |-> Prefix(sorted, AllShown)]

GoodResult(sorted) ==
    [keys |-> {"match", "similarity", "goodMatches", "allMatches"},
     match |-> good_matches(sorted)[1].matchData,
     similarity |-> good_matches(sorted)[1].similarity,
     perfectMatches |-> << >>,
     goodMatches |-> good_matches(sorted),
     closestMatch |-> NoClosest,
     allMatches |-> Prefix(sorted, AllShown)]

ClosestResult(sorted) ==
    [keys |-> {"match", "closestMatch", "allMatches"},
     match |-> NoData,
     similarity |-> NoSimilarity,
     perfectMatches |-> << >>,
     goodMatches |-> << >>,
     closestMatch |-> [id |-> sorted[1].id, matchData |-> sorted[1].matchData,
                       similarity |-> sorted[1].similarity],
     allMatches |-> Prefix(sorted, AllShown)]

\* the return statement the classification of the sorted list ends in
ReturnPoint(sorted) ==
    IF perfect_matches(sorted) # << >> THEN "ret_perfect"
    ELSE IF good_matches(sorted) # << >> THEN "ret_good"
    ELSE IF sorted # << >> THEN "ret_closest"
    ELSE "ret_nomatch"

\* the value the classification of the sorted list returns
Classify(sorted) ==
    IF perfect_matches(sorted) # << >> THEN PerfectResult(sorted)
    ELSE IF good_matches(sorted) # << >> THEN GoodResult(sorted)
    ELSE IF sorted # << >> THEN ClosestResult(sorted)
    ELSE NoneResult

-----------------------------------------------------------------------------
(* initialize_firebase and get_db_and_bucket: the global handles *)

\* None, as the value of a handle
NoHandle == << "None", 0 >>
\* the pair no call has returned yet
NoPair == << NoHandle, NoHandle >>

\* how one library call ends: it returns, raises ValueError, or raises
\* another exception
Outcomes == {"ok", "ValueError", "Error"}

\* what the environment does to the library calls of one run of
\* initialize_firebase: firestore.client and admin_storage.bucket on the
\* existing app, then reading the credentials, firestore.client and
\* admin_storage.bucket of the second try block
Environments ==
    [client_a : Outcomes, bucket_a : Outcomes, cred : {"ok", "Error"},
     client_b : Outcomes, bucket_b : Outcomes]

\* the globals and the library's state, as initialize_firebase reads and
\* leaves them
Globals ==
    [apps |-> apps, db |-> db, bucket |-> bucket, handles |-> handles,
     app_inits |-> app_inits, init_runs |-> init_runs]

\* db = firestore.client(...): a new client object
WithClient(g) ==
    [g EXCEPT !.db = << "client", g.handles + 1 >>, !.handles = g.handles + 1]

\* bucket = admin_storage.bucket(...): a new bucket object
WithBucket(g) ==
    [g EXCEPT !.bucket = << "bucket", g.handles + 1 >>, !.handles = g.handles + 1]

\* ExistingApp creating both handles whether they are set or not
ExistingAppRecreates(g, env) ==
    LET g1 == IF env.client_a = "ok" THEN WithClient(g) ELSE g
        b == IF env.client_a = "ok" THEN env.bucket_a ELSE "skip"
        g2 == IF b = "ok" THEN WithBucket(g1) ELSE g1
    IN  [g |-> g2,
         status |-> IF "Error" \in {env.client_a, b} THEN "raise"
                    ELSE IF "ValueError" \in {env.client_a, b} THEN "fallthrough"
                    ELSE "return"]

\* the branch for an existing app (lines 21-34): each handle that is None is
\* created; ValueError is swallowed and falls through to the second try
\* block, any other exception leaves the function
ExistingApp(g, env) ==
    LET c == IF g.db = NoHandle THEN env.client_a ELSE "skip"
        g1 == IF c = "ok" THEN WithClient(g) ELSE g
        b == IF c \in {"ok", "skip"} /\ g1.bucket = NoHandle THEN env.bucket_a ELSE "skip"
        g2 == IF b = "ok" THEN WithBucket(g1) ELSE g1
    IN  [g |-> g2,
         status |-> IF "Error" \in {c, b} THEN "raise"
                    ELSE IF "ValueError" \in {c, b} THEN "fallthrough"
                    ELSE "return"]

\* db = firestore.client(...) then bucket = admin_storage.bucket(...): the
\* first to raise ends the function, with what was assigned before it kept
CreateHandles(g, env) ==
    LET g1 == IF env.client_b = "ok" THEN WithClient(g) ELSE g
        g2 == IF env.client_b = "ok" /\ env.bucket_b = "ok" THEN WithBucket(g1) ELSE g1
    IN  [g |-> g2,
         status |-> IF env.client_b = "ok" /\ env.bucket_b = "ok" THEN "return" ELSE "raise"]

\* the second try block (lines 37-107): the credentials are read (a missing
\* file raises), initialize_app creates the app, or raises ValueError
\* "already exists" when there is one and the handler takes the existing
\* app, and the two handles are created
NewApp(g, env) ==
    IF env.cred # "ok" THEN [g |-> g, status |-> "raise"]
    ELSE IF g.apps THEN CreateHandles(g, env)
    ELSE CreateHandles([g EXCEPT !.apps = TRUE, !.app_inits = g.app_inits + 1], env)

\* initialize_firebase(): the globals it leaves and whether it returned
\* (db, bucket) or raised
initialize_firebase(g, env) ==
    LET entered == [g EXCEPT !.init_runs = g.init_runs + 1]
        existing == ExistingApp(entered, env)
    IN  IF ~g.apps THEN NewApp(entered, env)
        ELSE IF existing.status = "fallthrough" THEN NewApp(existing.g, env)
        ELSE existing

\* get_db_and_bucket(): initialize_firebase() when a handle is None
get_db_and_bucket(g, env) ==
    IF g.db = NoHandle \/ g.bucket = NoHandle
    THEN initialize_firebase(g, env)
    ELSE [g |-> g, status |-> "return"]

\* no call was made yet
NoCall ==
    [op |-> "none", status |-> "none", pair |-> NoPair, had_pair |-> FALSE,
     before |-> [handles |-> 0, app_inits |-> 0, init_runs |-> 0, db |-> NoHandle,
                 bucket |-> NoHandle]]

\* the module was imported: db = None, bucket = None, no app
FbIdle ==
    /\ apps = FALSE
    /\ db = NoHandle
    /\ bucket = NoHandle
    /\ handles = 0
    /\ app_inits = 0
    /\ init_runs = 0
    /\ calls = 0
    /\ failed_calls = 0
    /\ last = NoCall
    /\ first_pair = NoPair

-----------------------------------------------------------------------------
(* Inputs of calculate_similarity *)

\* longest query list and longest reference list passed to calculate_similarity
MaxQuery == 2
MaxRef == 2

SeqsUpTo(S, n) == UNION {[1..m -> S] : m \in 0..n}

\* a point with the named keys
Pt(x, y, type, angle) == [x |-> x, y |-> y, type |-> type, angle |-> angle]

\* positions around the distance threshold: (0,0)-(3,4) is exactly 5 apart,
\* (0,0)-(3.01,4) is just farther, (10,10)-(20,20) is the pair of the spec's
\* scenario
GeoPoints ==
    {Pt(Num(xy[1]), Num(xy[2]), Num(1 * Scale), Num(0)) :
        xy \in {<<0, 0>>, <<3 * Scale, 4 * Scale>>, <<3 * Scale + 1, 4 * Scale>>,
                <<10 * Scale, 10 * Scale>>, <<20 * Scale, 20 * Scale>>}}

\* angles 0, 0.3, 0.31, 3.14 (half a turn), 6.23 (2*pi - 0.05), 9.42 (a turn
\* and a half), at one position with one type
AnglePoints ==
    {Pt(Num(0), Num(0), Num(1 * Scale), Num(a)) : a \in {0, 30, 31, 314, 623, 942}}

\* types 1, "1", "01", 2, None at one position with one angle
TypePoints ==
    {Pt(Num(0), Num(0), ty, Num(0)) :
        ty \in {Num(1 * Scale), Str(<<"1">>), Str(<<"0", "1">>), Num(2 * Scale), NoneV}}

\* malformed fields: an unparsable string, None, NaN, parsable strings, a
\* missing key (read as 0)
MalformedPoints ==
    {Pt(Str(<<"a">>), Num(0), Num(1 * Scale), Num(0)),
     Pt(Num(0), NoneV, Num(1 * Scale), Num(0)),
     Pt(NaN, Num(0), Num(1 * Scale), Num(0)),
     Pt(Str(<<"3">>), Str(<<"-", "4">>), Num(1 * Scale), Str(<<"0">>)),
     [y |-> Num(0), type |-> Num(1 * Scale), angle |-> Num(0)]}

\* the same values under the three key shapes of stored points
KeyedPoint(shape, x, type) ==
    CASE shape = "s" -> [s0 |-> Num(x), s1 |-> Num(0), s2 |-> type, s3 |-> Num(0)]
      [] shape = "i" -> [i0 |-> Num(x), i1 |-> Num(0), i2 |-> type, i3 |-> Num(0)]
      [] shape = "n" -> Pt(Num(x), Num(0), type, Num(0))

KeyShapePoints ==
    {KeyedPoint(shape, x, Num(1 * Scale)) : shape \in {"s", "i", "n"}, x \in {0, 10 * Scale}}

\* each family gives the points of the query lists and of the reference lists
Families ==
    {[q |-> GeoPoints, r |-> GeoPoints],
     [q |-> AnglePoints, r |-> AnglePoints],
     [q |-> TypePoints, r |-> TypePoints],
     [q |-> MalformedPoints, r |-> MalformedPoints],
     [q |-> {KeyedPoint("n", x, Num(1 * Scale)) : x \in {0, 10 * Scale}},
      r |-> KeyShapePoints]}

\* the ranker's variables while calculate_similarity is exercised on its own
DbIdle ==
    /\ minutiae_df = << >>
    /\ store = << >>
    /\ pc = "idle"
    /\ reference_dataset = << >>
    /\ all_test_minutiae = << >>
    /\ ref_pos = 0
    /\ arr_pos = 0
    /\ best_match_data = NoneData
    /\ best_match_score = Score(0, 1)
    /\ all_matches = << >>
    /\ result = NoneResult
    /\ firebase_initialized = FALSE
    /\ shown = "nothing"

-----------------------------------------------------------------------------
(* calculate_similarity called with every pair of lists of the families *)

InitSim ==
    /\ \E f \in Families :
          /\ uploaded_minutiae \in SeqsUpTo(f.q, MaxQuery)
          /\ reference_minutiae \in SeqsUpTo(f.r, MaxRef)
    /\ similarity = NoSimilarity
    /\ spc = "call"
    /\ DbIdle
    /\ FbIdle

CallSimilarity ==
    /\ spc = "call"
    /\ similarity' = calculate_similarity(uploaded_minutiae, reference_minutiae)
    /\ spc' = "returned"
    /\ UNCHANGED << uploaded_minutiae, reference_minutiae >>
    /\ UNCHANGED dbVars
    /\ UNCHANGED fbVars

NextSim == CallSimilarity

SpecSim == InitSim /\ [][NextSim]_vars

-----------------------------------------------------------------------------
(* Inputs of match_minutiae_with_database *)

\* most documents of the fingerprintReferences collection
MaxDocs == 6

Row(a, b, c, d) == << Num(a * Scale), Num(b * Scale), Num(c * Scale), Num(d * Scale) >>

\* the stored points A, B, C, more than 5 apart, a far point and a point of type 0
PointA == Pt(Num(10 * Scale), Num(10 * Scale), Num(1 * Scale), Num(0))
PointB == Pt(Num(30 * Scale), Num(10 * Scale), Num(1 * Scale), Num(0))
PointC == Pt(Num(50 * Scale), Num(10 * Scale), Num(1 * Scale), Num(0))
PointFar == Pt(Num(20 * Scale), Num(20 * Scale), Num(1 * Scale), Num(0))

\* a table of 100 rows in the layout (x, y, type, angle): 95 rows at A, 4 at
\* B, 1 at C, so that a record scores 95, 96, 99 or 100 by the points it stores
HundredRows ==
    [k \in 1..100 |->
        IF k <= 95 THEN Row(10, 10, 1, 0)
        ELSE IF k <= 99 THEN Row(30, 10, 1, 0) ELSE Row(50, 10, 1, 0)]

HundredTable == [columns |-> 4, rows |-> HundredRows]

\* one-row tables
SmallTables ==
    {[columns |-> 4, rows |-> << Row(10, 10, 1, 0) >>],          \* (x, y, type, angle)
     [columns |-> 4, rows |-> << Row(1, 10, 10, 0) >>],          \* (type, x, y, angle)
     [columns |-> 4, rows |-> << Row(10, 10, 0, 0) >>],          \* first two layouts agree
     [columns |-> 4, rows |-> << Row(0, 10, 10, 0) >>],          \* last two layouts agree
     [columns |-> 4, rows |-> << << Str(<<"a">>), Num(10 * Scale), Num(1 * Scale), Num(0) >> >>],
     [columns |-> 3, rows |-> << << Num(10 * Scale), Num(10 * Scale), Num(1 * Scale) >> >>]}

Doc(id, minutiae) == [id |-> id, minutiae |-> minutiae]

\* the documents a collection is drawn from, in the order the collection
\* returns them
Universe ==
    << Doc("R1", << PointA >>),
       Doc("R2", << PointFar >>),
       Doc("R3", << PointA, PointB >>),
       Doc("R4", << KeyedPoint("i", 10 * Scale, Num(1 * Scale)),
                    [i0 |-> Num(10 * Scale), i1 |-> Num(10 * Scale),
                     i2 |-> Str(<<"1">>), i3 |-> Num(0)] >>),
       Doc("R5", << PointA, PointB, PointC >>),
       Doc("R6", << [s0 |-> Num(10 * Scale), s1 |-> Num(10 * Scale),
                     s2 |-> Num(0), s3 |-> Num(0)] >>),
       Doc("R7", << PointA, PointC >>),
       Doc("R8", << >>),
       Doc("R9", << PointB >>),
       Doc("R10", << PointC, PointA >>) >>

RECURSIVE Pick(_, _, _)
\* the documents of Universe at the positions of S, in order
Pick(S, k, acc) ==
    IF k > Len(Universe) THEN acc
    ELSE Pick(S, k + 1, IF k \in S THEN Append(acc, Universe[k]) ELSE acc)

\* every collection of at most MaxDocs documents of Universe
Stores ==
    {Pick(S, 1, << >>) : S \in {T \in SUBSET (1..Len(Universe)) : Cardinality(T) <= MaxDocs}}

\* the collections matched against the table of 100 rows: those whose
\* documents all store A, B or C
HundredStores ==
    {Pick(S, 1, << >>) : S \in {T \in SUBSET {1, 3, 4, 5, 7, 9, 10} : Cardinality(T) <= MaxDocs}}

SimIdle ==
    /\ uploaded_minutiae = << >>
    /\ reference_minutiae = << >>
    /\ similarity = NoSimilarity
    /\ spc = "idle"

-----------------------------------------------------------------------------
(* match_minutiae_with_database *)

Init ==
    /\ \/ minutiae_df \in SmallTables /\ store \in Stores
       \/ minutiae_df = HundredTable /\ store \in HundredStores
    /\ pc = "page"
    /\ firebase_initialized \in BOOLEAN
    /\ shown = "nothing"
    /\ reference_dataset = << >>
    /\ all_test_minutiae = << >>
    /\ ref_pos = 0
    /\ arr_pos = 0
    /\ best_match_data = NoneData
    /\ best_match_score = Score(0, 1)
    /\ all_matches = << >>
    /\ result = NoneResult
    /\ SimIdle
    /\ FbIdle

\* pc after the call names the return statement that ended it:
\*   "ret_empty"    line 243, no references
\*   "ret_perfect"  line 321, "ret_good" line 332, "ret_closest" line 341
\*   "ret_nomatch"  line 352, no matches at all
\*   "ret_except"   line 357, the except clause
ReturnPoints ==
    {"ret_empty", "ret_perfect", "ret_good", "ret_closest", "ret_nomatch", "ret_except"}

\* the function returns value at the return statement at
Return(value, at) ==
    /\ result' = value
    /\ pc' = at

\* the fetch of the documents raises (the store is unreachable): the except
\* clause prints the error and returns None
FetchRaises ==
    /\ pc = "start"
    /\ Return(NoneResult, "ret_except")
    /\ UNCHANGED << minutiae_df, store, reference_dataset, all_test_minutiae,
                    ref_pos, arr_pos, best_match_data, best_match_score, all_matches >>
    /\ UNCHANGED pageVars
    /\ UNCHANGED simVars
    /\ UNCHANGED fbVars

\* Fetch without the test for an empty collection: the loop over no records
\* is skipped and the empty list of matches goes on to be ranked
FetchWithoutEmptyCheck ==
    /\ pc = "start"
    /\ reference_dataset' = ReferenceDataset(store)
    /\ all_test_minutiae' = AllTestMinutiae(minutiae_df)
    /\ ref_pos' = 1
    /\ arr_pos' = 0
    /\ pc' = IF store = << >> THEN "rank" ELSE "match"
    /\ UNCHANGED result
    /\ UNCHANGED << minutiae_df, store, best_match_data, best_match_score, all_matches >>
    /\ UNCHANGED pageVars
    /\ UNCHANGED simVars
    /\ UNCHANGED fbVars

\* the fetch succeeds: None for an empty collection, else the reference
\* dataset and the table under every arrangement are prepared and the loop
\* over the records starts
Fetch ==
    /\ pc = "start"
    /\ IF store = << >>
       THEN /\ Return(NoneResult, "ret_empty")
            /\ UNCHANGED << reference_dataset, all_test_minutiae, ref_pos, arr_pos >>
       ELSE /\ reference_dataset' = ReferenceDataset(store)
            /\ all_test_minutiae' = AllTestMinutiae(minutiae_df)
            /\ ref_pos' = 1
            /\ arr_pos' = 0
            /\ pc' = "match"
            /\ UNCHANGED result
    /\ UNCHANGED << minutiae_df, store, best_match_data, best_match_score, all_matches >>
    /\ UNCHANGED pageVars
    /\ UNCHANGED simVars
    /\ UNCHANGED fbVars

\* BetterMatch recording the arrangement by its 1-based index
BetterMatchOneBased(ref_data, sim, i) ==
    [id |-> ref_data.id, matchData |-> ref_data.matchData,
     similarity |-> sim, arrangement_used |-> i + 1]

\* the match kept when the score of arrangement i is greater than the best so far
BetterMatch(ref_data, sim, i) ==
    [id |-> ref_data.id, matchData |-> ref_data.matchData,
     similarity |-> sim, arrangement_used |-> i]

\* IsBetter with >= in place of >
IsBetterOrEqual(sim, best_score) == ScoreGreaterEq(sim.score, best_score)

\* similarity['score'] > best_match_score
IsBetter(sim, best_score) == ScoreGreater(sim.score, best_score)

\* if best_match_data: all_matches.append(best_match_data)
AppendBest(matches, best) == IF best # NoneData THEN Append(matches, best) ELSE matches

\* one iteration of the loop over the arrangements for the record ref_pos; an
\* exception of calculate_similarity reaches the except clause, which returns
\* None; after the last arrangement the best match, if there is one, is
\* appended and the next record starts, or the loop over the records ends
TryArrangement ==
    /\ pc = "match"
    /\ LET ref_data == reference_dataset[ref_pos]
           sim == calculate_similarity(all_test_minutiae[arr_pos + 1], ref_data.minutiae)
           better == IsBetter(sim, best_match_score)
           new_score == IF better THEN sim.score ELSE best_match_score
           new_data == IF better THEN BetterMatch(ref_data, sim, arr_pos) ELSE best_match_data
       IN  IF sim.status = "raise"
           THEN /\ Return(NoneResult, "ret_except")
                /\ UNCHANGED << ref_pos, arr_pos, best_match_data, best_match_score,
                                all_matches >>
           ELSE IF arr_pos + 1 < Len(arrangements)
           THEN /\ arr_pos' = arr_pos + 1
                /\ best_match_score' = new_score
                /\ best_match_data' = new_data
                /\ UNCHANGED << ref_pos, all_matches, pc, result >>
           ELSE /\ all_matches' = AppendBest(all_matches, new_data)
                /\ best_match_data' = NoneData
                /\ best_match_score' = Score(0, 1)
                /\ arr_pos' = 0
                /\ IF ref_pos < Len(reference_dataset)
                   THEN ref_pos' = ref_pos + 1 /\ pc' = pc
                   ELSE ref_pos' = ref_pos /\ pc' = "rank"
                /\ UNCHANGED result
    /\ UNCHANGED << minutiae_df, store, reference_dataset, all_test_minutiae >>
    /\ UNCHANGED pageVars
    /\ UNCHANGED simVars
    /\ UNCHANGED fbVars

\* the matches are sorted and classified, and the function returns
Rank ==
    /\ pc = "rank"
    /\ all_matches' = SortByScore(all_matches)
    /\ Return(Classify(SortByScore(all_matches)), ReturnPoint(SortByScore(all_matches)))
    /\ UNCHANGED << minutiae_df, store, reference_dataset, all_test_minutiae,
                    ref_pos, arr_pos, best_match_data, best_match_score >>
    /\ UNCHANGED pageVars
    /\ UNCHANGED simVars
    /\ UNCHANGED fbVars

\* what the handler shows for the value the call returned (app.py 143-194):
\* a falsy result, or one with none of the keys it looks for, is "No match
\* found. Please check your data and try again."
Display(r) ==
    IF "match" \in r.keys /\ r.match # NoData
    THEN IF "perfectMatches" \in r.keys /\ Len(r.perfectMatches) > 1
         THEN "perfect_tabs"
         ELSE "match_found"
    ELSE IF "goodMatches" \in r.keys /\ Len(r.goodMatches) > 0
         THEN "good_tabs"
         ELSE IF "closestMatch" \in r.keys
              THEN "closest"
              ELSE "no_match"

\* Find Match is pressed: without Firebase the handler only says that it
\* cannot match; otherwise it calls match_minutiae_with_database
FindMatch ==
    /\ pc = "page"
    /\ shown = "nothing"
    /\ IF firebase_initialized
       THEN pc' = "start" /\ shown' = shown
       ELSE pc' = pc /\ shown' = "cannot_match"
    /\ UNCHANGED << minutiae_df, store, reference_dataset, all_test_minutiae,
                    ref_pos, arr_pos, best_match_data, best_match_score,
                    all_matches, result, firebase_initialized >>
    /\ UNCHANGED simVars
    /\ UNCHANGED fbVars

\* the call returned and the handler shows the outcome
ShowResult ==
    /\ pc \in ReturnPoints
    /\ shown = "nothing"
    /\ shown' = Display(result)
    /\ UNCHANGED << minutiae_df, store, pc, reference_dataset, all_test_minutiae,
                    ref_pos, arr_pos, best_match_data, best_match_score,
                    all_matches, result, firebase_initialized >>
    /\ UNCHANGED simVars
    /\ UNCHANGED fbVars

\* showing a match raises (the stored document has no assignmentData for
\* display_match_info, or no studentInfo for the tab titles): the handler's
\* except clause shows "Error during matching" and "Please try again or
\* contact your instructor for assistance."
DisplayRaises ==
    /\ pc \in {"ret_perfect", "ret_good", "ret_closest"}
    /\ shown = "nothing"
    /\ shown' = "matching_error"
    /\ UNCHANGED << minutiae_df, store, pc, reference_dataset, all_test_minutiae,
                    ref_pos, arr_pos, best_match_data, best_match_score,
                    all_matches, result, firebase_initialized >>
    /\ UNCHANGED simVars
    /\ UNCHANGED fbVars

Next ==
    \/ FindMatch
    \/ FetchRaises
    \/ Fetch
    \/ TryArrangement
    \/ Rank
    \/ ShowResult
    \/ DisplayRaises

Spec == Init /\ [][Next]_vars

-----------------------------------------------------------------------------
(* Properties of calculate_similarity *)

Returned == spc = "returned" /\ similarity.status = "ok"

\* the two normalised lists of the call in progress
NQ == normalized_uploaded(uploaded_minutiae)
NR == normalized_reference(reference_minutiae)

Finite(v) == v.k = "num"

\* Euclidean distance of two normalised points at most 5
Within5(tp, rp) ==
    /\ Finite(tp.x) /\ Finite(tp.y) /\ Finite(rp.x) /\ Finite(rp.y)
    /\ (tp.x.n - rp.x.n) * (tp.x.n - rp.x.n) + (tp.y.n - rp.y.n) * (tp.y.n - rp.y.n)
          <= 25 * Scale * Scale

\* angular difference min(|d|, 2*pi - |d|) of two normalised points at most 0.3
AngleWithin(tp, rp) ==
    /\ Finite(tp.angle) /\ Finite(rp.angle)
    /\ LET d == Abs(tp.angle.n - rp.angle.n) * 10000
       IN  d <= 300000 \/ 6283185 - d <= 300000

\* the integer an all-digit string type stands for; any other type is itself
TypeValue(ty) ==
    IF ty.k = "str" /\ Len(ty.s) > 0 /\ \A i \in 1..Len(ty.s) : ty.s[i] \in Digits
    THEN Num(DigitsValue(ty.s) * Scale) ELSE ty

Qualifies(tp, rp) ==
    Within5(tp, rp) /\ AngleWithin(tp, rp) /\ TypeValue(tp.type) = TypeValue(rp.type)

\* the query points (1-based) with at least one qualifying reference point
QualifiedQueries == {i \in 1..Len(NQ) : \E j \in 1..Len(NR) : Qualifies(NQ[i], NR[j])}

\* C1: a query point is counted as matched exactly when some reference point
\* lies within distance 5 of it, within 0.3 rad of its angle and has an equal
\* type after normalisation ("1" equals 1); matchedPoints is the number of such
\* query points, totalPoints is max(|query|, |reference|), score is
\* 100 * matchedPoints / totalPoints, and a query point whose only reference
\* candidate is farther than 5 gives matchedPoints = 0 and score = 0
C1_MatchedCountAndScore ==
    Returned =>
        /\ similarity.matchedPoints = Cardinality(QualifiedQueries)
        /\ {d.test_idx + 1 : d \in {similarity.matchDetails[n] :
                                        n \in 1..Len(similarity.matchDetails)}}
              = QualifiedQueries
        /\ similarity.totalPoints = Max(Len(uploaded_minutiae), Len(reference_minutiae))
        /\ similarity.score.num * similarity.totalPoints
              = 100 * similarity.matchedPoints * similarity.score.den
        /\ (Len(NQ) = 1 /\ Len(NR) = 1 /\ ~Within5(NQ[1], NR[1]))
              => similarity.matchedPoints = 0 /\ similarity.score.num = 0

\* C1 witness: two query points, one matched by a reference point exactly 5
\* away, the other with no reference point within 5
C1_Witness ==
    /\ Returned
    /\ Len(uploaded_minutiae) = 2 /\ Len(reference_minutiae) = 1
    /\ similarity.matchedPoints = 1
    /\ similarity.score = Score(100, 2)
    /\ \E i \in 1..2 : NQ[i] # NR[1] /\ Within5(NQ[i], NR[1])
    /\ \E i \in 1..2 : ~Within5(NQ[i], NR[1])

\* C2: the returned score is between 0 and 100 and matchedPoints <= totalPoints
C2_ScoreBounded ==
    Returned =>
        /\ similarity.score.den > 0
        /\ 0 <= similarity.score.num
        /\ similarity.score.num <= 100 * similarity.score.den
        /\ 0 <= similarity.matchedPoints
        /\ similarity.matchedPoints <= similarity.totalPoints

\* C2 witness: more query points than reference points, every one matched
C2_Witness ==
    /\ Returned
    /\ Len(uploaded_minutiae) = 2 /\ Len(reference_minutiae) = 1
    /\ similarity.matchedPoints = 2
    /\ similarity.score = Score(200, 2)

\* separation of two angles on the circle of period 2*pi at most 0.3: the
\* difference is within 0.3 of a whole number of turns
ShortestArcWithin(a, b) ==
    LET d == Abs(a.n - b.n) * 10000
        turns == d \div 6283185
    IN  \E k \in {turns, turns + 1} : Abs(d - k * 6283185) <= 300000

\* the angle test of the match condition
AngleTestPasses(tp, rp) == LessEq(angle_diff(tp, rp), Num(angle_threshold))

\* C3: for every pair of raw angles the angle test passes exactly when their
\* shortest-arc separation is at most 0.3 rad, also when the raw difference
\* exceeds 2*pi
C3_AngleTestIsShortestArc ==
    Returned =>
        \A i \in 1..Len(NQ) : \A j \in 1..Len(NR) :
            (Finite(NQ[i].angle) /\ Finite(NR[j].angle)) =>
                (AngleTestPasses(NQ[i], NR[j])
                    <=> ShortestArcWithin(NQ[i].angle, NR[j].angle))

\* C8: normalisation never raises: whatever the x, y and angle fields hold, the
\* call returns a result
C8_NormalizationNeverRaises ==
    spc = "returned" => similarity.status = "ok"

\* C9: with an empty query list or an empty reference list the call returns
\* score 0, matchedPoints 0, no matchDetails and totalPoints = max of the lengths
C9_EmptyInput ==
    (spc = "returned" /\ (Len(uploaded_minutiae) = 0 \/ Len(reference_minutiae) = 0)) =>
        /\ similarity.status = "ok"
        /\ similarity.score.num = 0 /\ similarity.score.den > 0
        /\ similarity.matchedPoints = 0
        /\ similarity.matchDetails = << >>
        /\ similarity.totalPoints = Max(Len(uploaded_minutiae), Len(reference_minutiae))

\* C9 witness: an empty query against two reference points, one of them with
\* a field float() cannot convert
C9_Witness ==
    /\ spc = "returned"
    /\ Len(uploaded_minutiae) = 0 /\ Len(reference_minutiae) = 2
    /\ \E j \in 1..2 : PointRaised(NR[j])
    /\ similarity.totalPoints = 2

\* a minutia point with the named keys: x, y and angle are real numbers (or
\* strings float() parses) and the type is a number, a string or None
IsMinutiaPoint(point) ==
    /\ DOMAIN point = {"x", "y", "type", "angle"}
    /\ \A key \in {"x", "y", "angle"} : Float(point[key]).k = "num"
    /\ point.type.k \in {"num", "str", "none"}

\* C10: a non-empty point set matched against itself scores 100 with
\* matchedPoints = totalPoints = its length
C10_Identity ==
    (/\ spc = "returned"
     /\ Len(uploaded_minutiae) > 0
     /\ uploaded_minutiae = reference_minutiae
     /\ \A i \in 1..Len(uploaded_minutiae) : IsMinutiaPoint(uploaded_minutiae[i])) =>
        /\ similarity.status = "ok"
        /\ similarity.score.num = 100 * similarity.score.den
        /\ similarity.matchedPoints = Len(uploaded_minutiae)
        /\ similarity.totalPoints = Len(uploaded_minutiae)

\* C10 witness: a set of two different points, more than 5 apart, matched
\* against itself
C10_Witness ==
    /\ Returned
    /\ Len(uploaded_minutiae) = 2
    /\ uploaded_minutiae = reference_minutiae
    /\ ~Within5(NQ[1], NQ[2])
    /\ similarity.matchedPoints = 2

-----------------------------------------------------------------------------
(* Properties of match_minutiae_with_database *)

\* the column layouts in the order the ranker tries them: the role of each column
Layouts ==
    << << "x", "y", "type", "angle" >>,
       << "x", "y", "angle", "type" >>,
       << "type", "x", "y", "angle" >>,
       << "angle", "x", "y", "type" >> >>

\* the uploaded table read under layout i (0-based): every row becomes a point
\* with the roles of the columns the table has
QueryUnder(i) ==
    LET cols == 1..Min(4, minutiae_df.columns)
    IN  IF cols = {} THEN << >>
        ELSE [r \in 1..Len(minutiae_df.rows) |->
                [key \in {Layouts[i + 1][c] : c \in cols} |->
                    minutiae_df.rows[r][CHOOSE c \in cols : Layouts[i + 1][c] = key]]]

\* the result of scoring the stored document r under layout i
LayoutResult(r, i) == calculate_similarity(QueryUnder(i), store[r].minutiae)

\* the best score of document r is greater than 0
ScoresAboveZero(r) == \E i \in 0..3 : LayoutResult(r, i).score.num > 0

\* the position in the collection of the document with this id
PositionOf(id) == CHOOSE r \in 1..Len(store) : store[r].id = id

\* the per-record loop is over and the matches are not sorted yet
LoopDone == pc = "rank"

AtLeast(m, percent) == m.similarity.score.num >= percent * m.similarity.score.den
Below(m, percent) == m.similarity.score.num < percent * m.similarity.score.den

\* C5: for a non-empty collection in which no record scores >= 95 the call
\* (when no exception reaches its except clause) returns, instead of None, a
\* result with match = None and the top-scoring record as closestMatch
C5_NonEmptyIsNeverNone ==
    (/\ pc \in ReturnPoints \ {"ret_except"}
     /\ store # << >>
     /\ \A r \in 1..Len(store) : \A i \in 0..3 :
           LayoutResult(r, i).score.num < 95 * LayoutResult(r, i).score.den) =>
        /\ result # NoneResult
        /\ "closestMatch" \in result.keys
        /\ result.match = NoData
        /\ \A r \in 1..Len(store) : \A i \in 0..3 :
              result.closestMatch.similarity.score.num * LayoutResult(r, i).score.den
                  >= LayoutResult(r, i).score.num * result.closestMatch.similarity.score.den

\* the classification ran: the call ended in one of its return statements
Classified == pc \in {"ret_perfect", "ret_good", "ret_closest", "ret_nomatch"}

Perfect99(m) == AtLeast(m, 99)
Good95(m) == AtLeast(m, 95) /\ Below(m, 99)
FirstN(s, n) == SubSeq(s, 1, IF Len(s) < n THEN Len(s) ELSE n)
Entries(s) == {s[n] : n \in 1..Len(s)}

\* C6: with the ranked list all_matches: if a record scores >= 99,
\* perfectMatches is the records scoring >= 99, goodMatches the first 3 at
\* most of those in [95, 99) and allMatches the top 5; else if a record scores
\* in [95, 99), goodMatches is all of those and allMatches the top 5; else the
\* top record is returned as closestMatch only.  No record below 95 is in
\* perfectMatches or goodMatches and none is in both
C6_Classification ==
    (Classified /\ all_matches # << >>) =>
        /\ IF \E m \in Entries(all_matches) : Perfect99(m)
           THEN /\ result.keys = {"match", "similarity", "perfectMatches",
                                  "goodMatches", "allMatches"}
                /\ result.perfectMatches = SelectSeq(all_matches, Perfect99)
                /\ result.goodMatches = FirstN(SelectSeq(all_matches, Good95), 3)
                /\ result.match = result.perfectMatches[1].matchData
           ELSE IF \E m \in Entries(all_matches) : Good95(m)
           THEN /\ result.keys = {"match", "similarity", "goodMatches", "allMatches"}
                /\ result.goodMatches = SelectSeq(all_matches, Good95)
                /\ result.match = result.goodMatches[1].matchData
           ELSE /\ result.keys = {"match", "closestMatch", "allMatches"}
                /\ result.match = NoData
                /\ result.closestMatch.id = all_matches[1].id
                /\ result.closestMatch.similarity = all_matches[1].similarity
                /\ \A m \in Entries(all_matches) :
                      ~ScoreGreater(m.similarity.score, result.closestMatch.similarity.score)
        /\ result.allMatches = FirstN(all_matches, 5)
        /\ \A m \in Entries(result.perfectMatches) \cup Entries(result.goodMatches) :
              AtLeast(m, 95)
        /\ Entries(result.perfectMatches) \cap Entries(result.goodMatches) = {}

\* C6 witness: a record scoring exactly 99 is a perfect match, four records
\* score in [95, 99) and three of them are returned as good matches, and more
\* than five records are ranked
C6_Witness ==
    /\ pc = "ret_perfect"
    /\ \E m \in Entries(result.perfectMatches) : m.similarity.score = Score(9900, 100)
    /\ Len(SelectSeq(all_matches, Good95)) = 4
    /\ Len(result.goodMatches) = 3
    /\ Len(all_matches) = 6
    /\ Len(result.allMatches) = 5

\* C7: the similarity kept for a record is the result of one of the four
\* arrangements (x,y,type,angle), (x,y,angle,type), (type,x,y,angle),
\* (angle,x,y,type), its score is the maximum over the four, and
\* arrangement_used is the lowest index that attains the maximum
C7_BestArrangement ==
    LoopDone =>
        \A m \in Entries(all_matches) :
            LET r == PositionOf(m.id)
                u == m.arrangement_used
            IN  /\ u \in 0..3
                /\ m.similarity = LayoutResult(r, u)
                /\ \A i \in 0..3 :
                      ~ScoreGreater(LayoutResult(r, i).score, m.similarity.score)
                /\ \A i \in 0..3 :
                      i < u => ScoreLess(LayoutResult(r, i).score, m.similarity.score)

\* C7 witness: a record whose points align only under the third arrangement
\* is kept with that arrangement's score
C7_Witness ==
    /\ LoopDone
    /\ \E m \in Entries(all_matches) :
          /\ m.arrangement_used = 2
          /\ m.similarity.score = Score(100, 1)
          /\ \A i \in {0, 1, 3} : LayoutResult(PositionOf(m.id), i).score.num = 0

-----------------------------------------------------------------------------
(* Properties of calculate_similarity: the key shapes of stored points *)

StringKeys == {"s0", "s1", "s2", "s3"}
IntegerKeys == {"i0", "i1", "i2", "i3"}
NamedKeys == {"x", "y", "type", "angle"}

\* a stored point carrying all four values under one of the three key shapes
CompleteShape(point) == DOMAIN point \in {StringKeys, IntegerKeys, NamedKeys}

\* the four values <<x, y, type, angle>> a complete point carries
ValuesOf(point) ==
    CASE DOMAIN point = StringKeys -> <<point.s0, point.s1, point.s2, point.s3>>
      [] DOMAIN point = IntegerKeys -> <<point.i0, point.i1, point.i2, point.i3>>
      [] DOMAIN point = NamedKeys -> <<point.x, point.y, point.type, point.angle>>

\* the same four values under the given key shape
Rekeyed(point, shape) ==
    LET v == ValuesOf(point)
    IN  CASE shape = "s" -> [s0 |-> v[1], s1 |-> v[2], s2 |-> v[3], s3 |-> v[4]]
          [] shape = "i" -> [i0 |-> v[1], i1 |-> v[2], i2 |-> v[3], i3 |-> v[4]]
          [] shape = "n" -> [x |-> v[1], y |-> v[2], type |-> v[3], angle |-> v[4]]

RekeyedList(reference, shape) ==
    [j \in 1..Len(reference) |-> Rekeyed(reference[j], shape)]

\* what the caller reads of a result: whether it raised, and the three numbers
Outcome(r) == <<r.status, r.score, r.matchedPoints, r.totalPoints>>

\* C11: reference point lists carrying identical values under string keys
\* "0".."3", under integer keys 0..3 and under the names x, y, type, angle give
\* the same score, matchedPoints and totalPoints against the same query
C11_KeyShapeTolerance ==
    (/\ spc = "returned"
     /\ \A j \in 1..Len(reference_minutiae) : CompleteShape(reference_minutiae[j]))
    => \A shape \in {"s", "i", "n"} :
          Outcome(calculate_similarity(uploaded_minutiae,
                                       RekeyedList(reference_minutiae, shape)))
             = Outcome(similarity)

\* C11 witness: a string-keyed and an integer-keyed reference point, each
\* matched by a query point
C11_Witness ==
    /\ Returned
    /\ Len(reference_minutiae) = 2
    /\ DOMAIN reference_minutiae[1] = StringKeys
    /\ DOMAIN reference_minutiae[2] = IntegerKeys
    /\ similarity.matchedPoints = 2
    /\ similarity.score = Score(200, 2)

-----------------------------------------------------------------------------
(* Properties of calculate_similarity: matching is driven from the query side *)

\* the query points (1-based) the call counted, read from its match details
CountedQueries ==
    {similarity.matchDetails[n].test_idx + 1 : n \in 1..Len(similarity.matchDetails)}

\* query point i is counted when it is the only query point
CountedAlone(i) ==
    calculate_similarity(<< uploaded_minutiae[i] >>, reference_minutiae).matchedPoints = 1

\* the reference point (0-based) each counted query point claimed
ClaimedReference(n) == similarity.matchDetails[n].ref_idx

\* C12: matching is one-sided and without mutual exclusivity: a query point
\* is counted exactly when it would be counted alone against the same
\* reference list, every query point that qualifies against a reference point
\* is counted even when other query points qualify against that same
\* reference point, and matchedPoints is the number of counted query points
\* (so swapping the arguments can change the score: the witness)
C12_OneSidedMatching ==
    Returned =>
        /\ CountedQueries = {i \in 1..Len(uploaded_minutiae) : CountedAlone(i)}
        /\ similarity.matchedPoints = Cardinality(CountedQueries)
        /\ \A j \in 1..Len(NR) : \A i \in 1..Len(NQ) :
              Qualifies(NQ[i], NR[j]) => i \in CountedQueries

\* C12 witness: two different query points both claim the single reference
\* point and both are counted (score 100), and with the arguments swapped the
\* score is 50
C12_Witness ==
    /\ Returned
    /\ Len(uploaded_minutiae) = 2 /\ Len(reference_minutiae) = 1
    /\ uploaded_minutiae[1] # uploaded_minutiae[2]
    /\ Len(similarity.matchDetails) = 2
    /\ ClaimedReference(1) = 0 /\ ClaimedReference(2) = 0
    /\ similarity.matchedPoints = 2
    /\ similarity.score = Score(200, 2)
    /\ calculate_similarity(reference_minutiae, uploaded_minutiae).score = Score(100, 2)

-----------------------------------------------------------------------------
(* Properties of match_minutiae_with_database: the order of the ranked list *)

\* entry a may stand directly in front of entry b: a's score is not lower,
\* and on equal scores a's record was iterated before b's
InRankOrder(a, b) ==
    /\ ScoreGreaterEq(a.similarity.score, b.similarity.score)
    /\ ~ScoreGreater(a.similarity.score, b.similarity.score)
          => PositionOf(a.id) < PositionOf(b.id)

Ranked(s) == \A n \in 1..(Len(s) - 1) : InRankOrder(s[n], s[n + 1])

\* C13: the ranked list is in descending order of score and records of equal
\* score keep the order in which the collection was iterated; the same holds
\* of perfectMatches, goodMatches and allMatches
C13_StableDescending ==
    Classified =>
        /\ Ranked(all_matches)
        /\ Ranked(result.perfectMatches)
        /\ Ranked(result.goodMatches)
        /\ Ranked(result.allMatches)

\* C13 witness: the sort moved a later record in front of earlier ones and
\* left two records of equal score, now adjacent, in collection order
C13_Witness ==
    /\ Classified
    /\ Len(all_matches) >= 3
    /\ \E n \in 1..(Len(all_matches) - 1) :
          /\ all_matches[n].similarity.score = all_matches[n + 1].similarity.score
          /\ PositionOf(all_matches[n].id) < PositionOf(all_matches[n + 1].id)
          /\ all_matches[n] \in Entries(result.goodMatches)
          /\ all_matches[n + 1] \in Entries(result.goodMatches)
    /\ \E n \in 1..(Len(all_matches) - 1) :
          /\ ScoreGreater(all_matches[n].similarity.score, all_matches[n + 1].similarity.score)
          /\ PositionOf(all_matches[n].id) > PositionOf(all_matches[n + 1].id)

-----------------------------------------------------------------------------
(* Properties of match_minutiae_with_database: the empty collection *)

\* nothing was prepared for scoring and nothing was scored
NothingScored ==
    /\ reference_dataset = << >>
    /\ all_test_minutiae = << >>
    /\ ref_pos = 0 /\ arr_pos = 0
    /\ best_match_data = NoneData
    /\ best_match_score = Score(0, 1)
    /\ all_matches = << >>

\* C14: with an empty reference collection the call ends at its first step,
\* at the return for no references (or in the except clause when the fetch
\* itself raised), with None, whatever the uploaded table, without having
\* prepared or scored anything; the exception never leaves the function
C14_EmptyCollection ==
    store = << >> =>
        /\ pc \in {"page", "start", "ret_empty", "ret_except"}
        /\ result = NoneResult
        /\ NothingScored

\* C14 witness: None returned for no references to a table whose first cell
\* does not parse (scoring it would raise)
C14_Witness ==
    /\ store = << >>
    /\ pc = "ret_empty"
    /\ result = NoneResult
    /\ Len(minutiae_df.rows) = 1
    /\ minutiae_df.rows[1][1].k = "str"
    /\ NothingScored

-----------------------------------------------------------------------------
(* Properties of the Find Match handler: a failure of the backing store *)

\* the fetch of the reference records raised: the call ended in the except
\* clause before any reference record was read
FetchFailed == pc = "ret_except" /\ reference_dataset = << >>

\* the handler has shown the outcome of the call
Shown == shown # "nothing"

\* C15: when the fetch of the reference records raises during a match, the
\* handler ends in its error path ("Error during matching", "Please try
\* again or contact your instructor") and does not show the no-match message
C15_FetchFailureIsAnError ==
    (FetchFailed /\ Shown) => shown = "matching_error" /\ shown # "no_match"

\* the fetch raised and the page shows what it shows for no match; the
\* handler's error path is reached only from a display that raised
C15_FetchFailureShownAsNoMatch ==
    /\ (FetchFailed /\ Shown) => shown = "no_match" /\ result = NoneResult
    /\ shown = "matching_error" => pc \in {"ret_perfect", "ret_good", "ret_closest"}

-----------------------------------------------------------------------------
(* initialize_firebase and get_db_and_bucket called in any order *)

\* number of calls of a run
MaxCalls == 5

InitFb ==
    /\ FbIdle
    /\ SimIdle
    /\ DbIdle

\* the value a call that ended as r returned: the pair (db, bucket)
ReturnedPair(r) == IF r.status = "return" THEN << r.g.db, r.g.bucket >> ELSE NoPair

\* the call op ended as r = [g, status]: the globals are as it left them,
\* and what it did is recorded
EndCall(op, r) ==
    /\ apps' = r.g.apps
    /\ db' = r.g.db
    /\ bucket' = r.g.bucket
    /\ handles' = r.g.handles
    /\ app_inits' = r.g.app_inits
    /\ init_runs' = r.g.init_runs
    /\ calls' = calls + 1
    /\ failed_calls' = IF r.status = "raise" THEN failed_calls + 1 ELSE failed_calls
    /\ last' = [op |-> op, status |-> r.status, pair |-> ReturnedPair(r),
                had_pair |-> first_pair # NoPair,
                before |-> [handles |-> handles, app_inits |-> app_inits,
                            init_runs |-> init_runs, db |-> db, bucket |-> bucket]]
    /\ first_pair' = IF first_pair = NoPair /\ r.status = "return"
                     THEN ReturnedPair(r) ELSE first_pair

\* initialize_firebase() is called (the start-up of the page does, on every
\* run of the script)
CallInitializeFirebase ==
    /\ calls < MaxCalls
    /\ \E env \in Environments :
          EndCall("initialize_firebase", initialize_firebase(Globals, env))
    /\ UNCHANGED simVars
    /\ UNCHANGED dbVars

\* get_db_and_bucket() is called (match_minutiae_with_database does)
CallGetDbAndBucket ==
    /\ calls < MaxCalls
    /\ \E env \in Environments :
          EndCall("get_db_and_bucket", get_db_and_bucket(Globals, env))
    /\ UNCHANGED simVars
    /\ UNCHANGED dbVars

NextFb == CallInitializeFirebase \/ CallGetDbAndBucket

SpecFb == InitFb /\ [][NextFb]_vars

-----------------------------------------------------------------------------
(* Properties of initialize_firebase and get_db_and_bucket *)

BothSet == db # NoHandle /\ bucket # NoHandle

\* the last call ran initialize_firebase
LastInitialized == init_runs = last.before.init_runs + 1

\* the last call touched nothing: no app, client or bucket was created and
\* initialize_firebase was not entered
LastTouchedNothing ==
    /\ init_runs = last.before.init_runs
    /\ app_inits = last.before.app_inits
    /\ handles = last.before.handles

\* the app is created at most once
AppInitializedAtMostOnce == app_inits <= 1 /\ (apps <=> app_inits = 1)

\* once a call has returned a pair, the globals are that pair, every later
\* call returns it, and a later get_db_and_bucket does so without entering
\* initialize_firebase
PairIsReused ==
    /\ first_pair # NoPair <=> BothSet
    /\ BothSet => << db, bucket >> = first_pair
    /\ last.had_pair =>
          /\ last.status = "return"
          /\ last.pair = first_pair
          /\ app_inits = last.before.app_inits
          /\ handles = last.before.handles
          /\ last.op = "get_db_and_bucket" => LastTouchedNothing

\* while no pair has been returned, get_db_and_bucket enters
\* initialize_firebase: the handle is created on demand, and again after a
\* failure
InitializesOnDemand ==
    (last.op = "get_db_and_bucket" /\ ~last.had_pair) => LastInitialized

\* C16 as stated: the app is initialized at most once, a returned pair is
\* reused by every later get_db_and_bucket without initializing again, and
\* after a failed initialization both handles are unset so that the next
\* call retries
C16_HandlesUnsetAfterFailure ==
    /\ AppInitializedAtMostOnce
    /\ PairIsReused
    /\ InitializesOnDemand
    /\ last.status = "raise" => db = NoHandle /\ bucket = NoHandle

\* C16 (amended): the app is initialized at most once, a returned pair is
\* reused by every later get_db_and_bucket without initializing again, and
\* after a failed initialization the bucket is unset (db is set when only
\* the creation of the bucket failed), no pair has been returned, and the
\* next get_db_and_bucket enters initialize_firebase again
C16_LazyHandleReuse ==
    /\ AppInitializedAtMostOnce
    /\ PairIsReused
    /\ InitializesOnDemand
    /\ last.status = "raise" =>
          /\ bucket = NoHandle
          /\ first_pair = NoPair
          /\ ~last.had_pair

\* C16 witness: get_db_and_bucket returned the pair an earlier call created,
\* touching nothing; before that a call had failed and the retry, the second
\* run of initialize_firebase, had succeeded
C16_Witness ==
    /\ last.op = "get_db_and_bucket"
    /\ last.had_pair
    /\ last.status = "return"
    /\ last.pair = << db, bucket >>
    /\ LastTouchedNothing
    /\ failed_calls >= 1
    /\ app_inits = 1
    /\ init_runs = 2
    /\ handles = 2
    /\ calls >= 3

====
